---- MODULE Spec2Model ----
(***************************************************************************)
(* Model of Libraries/ScrollView/ScrollView.web.js: the ScrollView widget, *)
(* its wiring of the scroll handler through a throttle (render), its       *)
(* imperative scroll operations, and the responder protocol it is mixed    *)
(* into.  The throttle (domkit/throttle) and the responder mixin           *)
(* (ReactScrollResponder) are imported by the file but are not part of it; *)
(* they are modelled from sections 4.1 and 4.2 of the design document.     *)
(*                                                                         *)
(* Time is a discrete clock in milliseconds.  A JS value that may be       *)
(* absent (an optional argument, pendingArgs) is a sequence of length 0 or *)
(* 1.  A scroll event is identified by its arrival number at its widget.   *)
(***************************************************************************)
EXTENDS Integers, Sequences, FiniteSets

VARIABLES
  now,                 \* host clock (ms)
  mounted,             \* mounted[w]: the widget is in the view tree
  scrollEventThrottle, \* props.scrollEventThrottle (0 stands for 0 / not set)
  hasOnScroll,         \* props.onScroll is supplied
  scrollEnabled,       \* props.scrollEnabled
  handler,             \* the handleScroll closure made by the last render
  orphans,             \* deferred forwards of closures replaced by a render
  nDelivered,          \* raw scroll notifications delivered so far
  forwarded,           \* invocations of the application's onScroll
  phase,               \* responder phase of the widget
  responder,           \* shared registry slot: 0 (empty) or a widget
  isTouching,          \* a touch that started on the widget has not ended
  isDragging,          \* drag sub-protocol of the active session
  callbacks,           \* responder lifecycle notifications emitted
  teardownPhase,       \* phase the widget was in when it was unmounted
  scrollTop,           \* vertical offset of the widget's DOM node
  scrollLeft,          \* horizontal offset of the widget's DOM node
  lastCall,            \* last imperative scroll call <<op, w, first, second>>
  burst                \* burst scenario: [d |-> spacing, n |-> events]

vars == <<now, mounted, scrollEventThrottle, hasOnScroll, scrollEnabled,
          handler, orphans, nDelivered, forwarded, phase, responder,
          isTouching, isDragging, callbacks, teardownPhase, scrollTop, scrollLeft,
          lastCall, burst>>

propVars == <<scrollEventThrottle, hasOnScroll, scrollEnabled>>
throttleVars == <<handler, orphans, nDelivered, forwarded>>
responderVars == <<phase, responder, isTouching, isDragging, callbacks>>
offsetVars == <<scrollTop, scrollLeft, lastCall>>

\* ---------------------------------------------------------------- bounds
NumWidgets == 2
MaxEvents == 3
MaxTime == 5
MaxInterval == 3
MaxOffset == 2
MaxCallbacks == 2
MaxBurst == 4

Widgets == 1..NumWidgets
Last(s) == s[Len(s)]

\* ------------------------------------------------------------- throttle
None == <<>>

NoThrottle ==
  [wrapped |-> FALSE, intervalMs |-> 0, invoked |-> FALSE,
   lastInvokedAt |-> 0, pendingArgs |-> None, scheduled |-> FALSE]

NewThrottle(interval) ==
  [wrapped |-> TRUE, intervalMs |-> interval, invoked |-> FALSE,
   lastInvokedAt |-> 0, pendingArgs |-> None, scheduled |-> FALSE]

Deadline(th) == th.lastInvokedAt + th.intervalMs

\* observe(event) of section 4.2: the new throttle state and the event
\* forwarded synchronously, if any.
Observe(th, e, t) ==
  IF th.intervalMs = 0
    THEN [th |-> th, fwd |-> <<e>>]
    ELSE IF ~th.invoked \/ t - th.lastInvokedAt >= th.intervalMs
           THEN [th |-> [th EXCEPT !.invoked = TRUE, !.lastInvokedAt = t,
                                   !.pendingArgs = None, !.scheduled = FALSE],
                 fwd |-> <<e>>]
           ELSE [th |-> [th EXCEPT !.pendingArgs = <<e>>, !.scheduled = TRUE],
                 fwd |-> None]

\* the deferred forward of section 4.2
Deferred(th, t) ==
  [th |-> [th EXCEPT !.invoked = TRUE, !.lastInvokedAt = t,
                     !.pendingArgs = None, !.scheduled = FALSE],
   fwd |-> th.pendingArgs]

\* ----------------------------------------------------------- ScrollView
Truthy(n) == n # 0

\* handleScroll(e): this.props.onScroll && this.props.onScroll(e)
HandleScroll(w, e, t) ==
  IF hasOnScroll[w] THEN <<[e |-> e, at |-> t]>> ELSE <<>>

ForwardAll(w, args, t) ==
  IF args = None THEN <<>> ELSE HandleScroll(w, args[1], t)

\* render() wiring this.handleScroll without the throttle
RenderHandleScroll_unthrottled(w) ==
  IF hasOnScroll[w] THEN NewThrottle(0) ELSE NoThrottle

\* render(): let handleScroll = () => {}; if (throttle && onScroll) ...
RenderHandleScroll(w) ==
  IF Truthy(scrollEventThrottle[w]) /\ hasOnScroll[w]
    THEN NewThrottle(scrollEventThrottle[w])
    ELSE NoThrottle

Due(w) ==
  \/ handler[w].scheduled /\ Deadline(handler[w]) <= now
  \/ \E o \in orphans[w] : o.at <= now

\* the handler wired by render receives the widget's next scroll event
Dispatch(w) ==
  IF handler[w].wrapped
    THEN Observe(handler[w], nDelivered[w] + 1, now)
    ELSE [th |-> handler[w], fwd |-> None]

\* a raw scroll notification is delivered to every widget of S
DeliverScroll(S) ==
  /\ nDelivered' = [w \in Widgets |->
                      IF w \in S THEN nDelivered[w] + 1 ELSE nDelivered[w]]
  /\ handler' = [w \in Widgets |->
                   IF w \in S THEN Dispatch(w).th ELSE handler[w]]
  /\ forwarded' = [w \in Widgets |->
                     IF w \in S
                       THEN forwarded[w] \o ForwardAll(w, Dispatch(w).fwd, now)
                       ELSE forwarded[w]]

ScrollNotify(w) ==
  /\ mounted[w]
  /\ nDelivered[w] < MaxEvents
  /\ DeliverScroll({w})
  /\ UNCHANGED <<now, mounted, propVars, orphans, responderVars,
                 teardownPhase, offsetVars, burst>>

\* re-render: a new closure replaces the old one; a deferred forward the old
\* closure has scheduled stays on the host's timer queue
Render(w) ==
  /\ mounted[w]
  /\ handler' = [handler EXCEPT ![w] = RenderHandleScroll(w)]
  /\ orphans' = [orphans EXCEPT ![w] =
                   IF handler[w].scheduled
                     THEN @ \cup {[at |-> Deadline(handler[w]),
                                   args |-> handler[w].pendingArgs]}
                     ELSE @]
  /\ UNCHANGED <<now, mounted, propVars, nDelivered, forwarded,
                 responderVars, teardownPhase, offsetVars, burst>>

TimerFire(w) ==
  /\ handler[w].scheduled
  /\ Deadline(handler[w]) <= now
  /\ LET r == Deferred(handler[w], now)
     IN /\ handler' = [handler EXCEPT ![w] = r.th]
        /\ forwarded' = [forwarded EXCEPT ![w] = @ \o ForwardAll(w, r.fwd, now)]
  /\ UNCHANGED <<now, mounted, propVars, orphans, nDelivered, responderVars,
                 teardownPhase, offsetVars, burst>>

OrphanFire(w) ==
  \E o \in orphans[w] :
    /\ o.at <= now
    /\ orphans' = [orphans EXCEPT ![w] = @ \ {o}]
    /\ forwarded' = [forwarded EXCEPT ![w] = @ \o ForwardAll(w, o.args, now)]
    /\ UNCHANGED <<now, mounted, propVars, handler, nDelivered, responderVars,
                   teardownPhase, offsetVars, burst>>

Tick(limit) ==
  /\ now < limit
  /\ \A w \in Widgets : ~Due(w)
  /\ now' = now + 1
  /\ UNCHANGED <<mounted, propVars, throttleVars, responderVars,
                 teardownPhase, offsetVars, burst>>

\* ------------------------------------------- responder arbiter (4.1)
Empty == 0

\* the widget's ResponderState and the notifications it has emitted
Arbiter == [phase |-> phase, isTouching |-> isTouching,
            isDragging |-> isDragging, callbacks |-> callbacks]

Emit(a, w, name) == [a EXCEPT !.callbacks[w] = Append(@, name)]

\* default eligibility policy: always eligible unless scrolling is disabled
ScrollResponderHandleStartShouldSetResponder(w) == scrollEnabled[w]

ScrollResponderHandleTouchStart(a, w) == [a EXCEPT !.isTouching[w] = TRUE]

ScrollResponderHandleTouchMove(a, w) ==
  IF a.phase[w] = "Active" /\ ~a.isDragging[w]
    THEN Emit([a EXCEPT !.isDragging[w] = TRUE], w, "onScrollBeginDrag")
    ELSE a

ScrollResponderHandleTouchEnd(a, w) == [a EXCEPT !.isTouching[w] = FALSE]

ScrollResponderHandleResponderGrant(a, w) ==
  Emit([a EXCEPT !.phase[w] = "Active"], w, "onResponderGrant")

ScrollResponderHandleResponderReject(a, w) ==
  Emit([a EXCEPT !.phase[w] = "Idle"], w, "onResponderReject")

ScrollResponderHandleTerminate(a, w) ==
  Emit([a EXCEPT !.phase[w] = "Idle", !.isDragging[w] = FALSE],
       w, "onResponderTerminate")

EndDrag(a, w) ==
  IF a.isDragging[w]
    THEN Emit([a EXCEPT !.isDragging[w] = FALSE], w, "onScrollEndDrag")
    ELSE a

ScrollResponderHandleResponderRelease(a, w) ==
  Emit([EndDrag(a, w) EXCEPT !.phase[w] = "Idle"], w, "onResponderRelease")

\* render(): the props handed to the View (lines 362-386)
OnTouchStart(a, w) == ScrollResponderHandleTouchStart(a, w)
OnTouchMove(a, w) == ScrollResponderHandleTouchMove(a, w)
OnTouchEnd(a, w) == ScrollResponderHandleTouchEnd(a, w)
OnStartShouldSetResponder_always(w) == TRUE
OnStartShouldSetResponder(w) == ScrollResponderHandleStartShouldSetResponder(w)
OnResponderGrant(a, w) == ScrollResponderHandleResponderGrant(a, w)
OnResponderTerminate_asGrant(a, w) == ScrollResponderHandleResponderGrant(a, w)
OnResponderTerminate(a, w) == ScrollResponderHandleTerminate(a, w)
OnResponderRelease_asTerminate(a, w) == ScrollResponderHandleTerminate(a, w)
OnResponderRelease(a, w) == ScrollResponderHandleResponderRelease(a, w)
OnResponderReject(a, w) == ScrollResponderHandleResponderReject(a, w)

SetArbiter(a) ==
  /\ phase' = a.phase
  /\ isTouching' = a.isTouching
  /\ isDragging' = a.isDragging
  /\ callbacks' = a.callbacks

otherThanResponder == <<now, mounted, propVars, throttleVars, teardownPhase,
                        offsetVars, burst>>

\* touch-start: the touch is captured; an eligible idle widget starts a claim
TouchStart(w) ==
  /\ mounted[w]
  /\ ~isTouching[w]
  /\ Len(callbacks[w]) < MaxCallbacks
  /\ LET a == OnTouchStart(Arbiter, w)
     IN SetArbiter(IF a.phase[w] = "Idle" /\ OnStartShouldSetResponder(w)
                     THEN [a EXCEPT !.phase[w] = "Claiming"]
                     ELSE a)
  /\ UNCHANGED <<responder, otherThanResponder>>

\* the registry grants a claim when no widget owns the slot
Grant(w) ==
  /\ mounted[w]
  /\ phase[w] = "Claiming"
  /\ responder = Empty
  /\ responder' = w
  /\ SetArbiter(OnResponderGrant(Arbiter, w))
  /\ UNCHANGED otherThanResponder

\* a claim against an owner: the owner yields (terminate) or refuses (reject)
TerminationRequest(c) ==
  /\ mounted[c]
  /\ phase[c] = "Claiming"
  /\ responder # Empty
  /\ responder # c
  /\ \E allow \in BOOLEAN :
       IF allow
         THEN /\ responder' = Empty
              /\ SetArbiter(OnResponderTerminate(Arbiter, responder))
         ELSE /\ responder' = responder
              /\ SetArbiter(OnResponderReject(Arbiter, c))
  /\ UNCHANGED otherThanResponder

TouchMove(w) ==
  /\ mounted[w]
  /\ isTouching[w]
  /\ SetArbiter(OnTouchMove(Arbiter, w))
  /\ UNCHANGED <<responder, otherThanResponder>>

\* touch-end: the owner releases the slot; a claim not yet granted is dropped
TouchEnd(w) ==
  /\ mounted[w]
  /\ isTouching[w]
  /\ LET a == OnTouchEnd(Arbiter, w)
     IN IF responder = w
          THEN /\ responder' = Empty
               /\ SetArbiter(OnResponderRelease(a, w))
          ELSE /\ responder' = responder
               /\ SetArbiter([a EXCEPT !.phase[w] = "Idle"])
  /\ UNCHANGED otherThanResponder

\* teardown of the arbiter: forced release when the widget owns the slot
TeardownResponder(a, w) ==
  LET b == [a EXCEPT !.isTouching[w] = FALSE]
  IN IF responder = w
       THEN OnResponderRelease(b, w)
       ELSE [b EXCEPT !.phase[w] = "Idle"]

\* unmount: the class defines no teardown of its own; deferred forwards the
\* render closures have scheduled stay on the host's timer queue
Unmount(w) ==
  /\ mounted[w]
  /\ mounted' = [mounted EXCEPT ![w] = FALSE]
  /\ teardownPhase' = [teardownPhase EXCEPT ![w] = phase[w]]
  /\ responder' = IF responder = w THEN Empty ELSE responder
  /\ SetArbiter(TeardownResponder(Arbiter, w))
  /\ UNCHANGED <<now, propVars, throttleVars, offsetVars, burst>>

\* --------------------------------------------------- imperative scroll
OrZero(arg) == IF arg = None \/ arg[1] = 0 THEN 0 ELSE arg[1]

ScrollWithoutAnimationToNode(w, destY, destX) ==
  /\ scrollTop' = [scrollTop EXCEPT ![w] = OrZero(destY)]
  /\ scrollLeft' = [scrollLeft EXCEPT ![w] = OrZero(destX)]

ScrollWithoutAnimationTo(w, destY, destX) ==
  /\ mounted[w]
  /\ ScrollWithoutAnimationToNode(w, destY, destX)
  /\ lastCall' = <<"scrollWithoutAnimationTo", w, destY, destX>>
  /\ UNCHANGED <<now, mounted, propVars, throttleVars, responderVars,
                 teardownPhase, burst>>

\* scrollTo handing its arguments on in the order (x, y)
ScrollTo_swapped(w, destY, destX) ==
  /\ mounted[w]
  /\ ScrollWithoutAnimationToNode(w, destX, destY)
  /\ lastCall' = <<"scrollTo", w, destY, destX>>
  /\ UNCHANGED <<now, mounted, propVars, throttleVars, responderVars,
                 teardownPhase, burst>>

ScrollTo(w, destY, destX) ==
  /\ mounted[w]
  /\ ScrollWithoutAnimationToNode(w, destY, destX)
  /\ lastCall' = <<"scrollTo", w, destY, destX>>
  /\ UNCHANGED <<now, mounted, propVars, throttleVars, responderVars,
                 teardownPhase, burst>>

Args == {None} \cup {<<n>> : n \in 0..MaxOffset}

\* ------------------------------------------------------ initial states
Phases == {"Idle", "Claiming", "Active"}
NoBurst == [d |-> 0, n |-> 0]

InitWidgets(live) ==
  /\ now = 0
  /\ mounted = [w \in Widgets |-> w \in live]
  /\ handler = [w \in Widgets |-> IF w \in live THEN RenderHandleScroll(w)
                                               ELSE NoThrottle]
  /\ orphans = [w \in Widgets |-> {}]
  /\ nDelivered = [w \in Widgets |-> 0]
  /\ forwarded = [w \in Widgets |-> <<>>]
  /\ phase = [w \in Widgets |-> "Idle"]
  /\ responder = Empty
  /\ isTouching = [w \in Widgets |-> FALSE]
  /\ isDragging = [w \in Widgets |-> FALSE]
  /\ callbacks = [w \in Widgets |-> <<>>]
  /\ teardownPhase = [w \in Widgets |-> "Mounted"]
  /\ scrollTop = [w \in Widgets |-> 0]
  /\ scrollLeft = [w \in Widgets |-> 0]
  /\ lastCall = <<>>

ThrottleValues == (-1)..MaxInterval

\* one widget, any throttle setting, with or without onScroll
InitThrottle ==
  /\ scrollEventThrottle \in [Widgets -> ThrottleValues]
  /\ \A w \in Widgets : w # 1 => scrollEventThrottle[w] = 0
  /\ hasOnScroll \in [Widgets -> BOOLEAN]
  /\ \A w \in Widgets : w # 1 => ~hasOnScroll[w]
  /\ scrollEnabled = [w \in Widgets |-> TRUE]
  /\ burst = NoBurst
  /\ InitWidgets({1})

NextThrottle ==
  \/ \E w \in Widgets : ScrollNotify(w)
  \/ \E w \in Widgets : Render(w)
  \/ \E w \in Widgets : TimerFire(w)
  \/ \E w \in Widgets : OrphanFire(w)
  \/ \E w \in Widgets : Unmount(w)
  \/ Tick(MaxTime)

SpecThrottle == InitThrottle /\ [][NextThrottle]_vars

\* every widget mounted, scrolling enabled or not
InitResponder ==
  /\ scrollEventThrottle = [w \in Widgets |-> 0]
  /\ hasOnScroll = [w \in Widgets |-> FALSE]
  /\ scrollEnabled \in [Widgets -> BOOLEAN]
  /\ burst = NoBurst
  /\ InitWidgets(Widgets)

NextResponder ==
  \/ \E w \in Widgets : TouchStart(w)
  \/ \E w \in Widgets : Grant(w)
  \/ \E w \in Widgets : TerminationRequest(w)
  \/ \E w \in Widgets : TouchMove(w)
  \/ \E w \in Widgets : TouchEnd(w)
  \/ \E w \in Widgets : Unmount(w)

SpecResponder == InitResponder /\ [][NextResponder]_vars

\* one widget with a throttled onScroll, touched and scrolled imperatively
InitScrollTo ==
  /\ scrollEventThrottle = [w \in Widgets |-> IF w = 1 THEN MaxInterval ELSE 0]
  /\ hasOnScroll = [w \in Widgets |-> w = 1]
  /\ scrollEnabled = [w \in Widgets |-> TRUE]
  /\ burst = NoBurst
  /\ InitWidgets({1})

NextScrollTo ==
  \/ \E w \in Widgets, y, x \in Args : ScrollTo(w, y, x)
  \/ \E w \in Widgets, y, x \in Args : ScrollWithoutAnimationTo(w, y, x)
  \/ \E w \in Widgets : TouchStart(w)
  \/ \E w \in Widgets : Grant(w)
  \/ \E w \in Widgets : TouchEnd(w)
  \/ \E w \in Widgets : ScrollNotify(w)

SpecScrollTo == InitScrollTo /\ [][NextScrollTo]_vars

\* a burst of burst.n scroll events, burst.d apart, at a freshly rendered
\* widget: event k arrives at time (k - 1) * burst.d
ExampleBurst == [interval |-> 100, d |-> 10, n |-> 16]

Bursts ==
  {ExampleBurst} \cup
  {[interval |-> i, d |-> d, n |-> n] :
     i \in 2..MaxInterval, d \in 1..MaxInterval, n \in 1..MaxBurst}

InitBurst ==
  /\ \E b \in Bursts :
       /\ b.d < b.interval
       /\ scrollEventThrottle = [w \in Widgets |-> IF w = 1 THEN b.interval ELSE 0]
       /\ burst = [d |-> b.d, n |-> b.n]
  /\ hasOnScroll = [w \in Widgets |-> w = 1]
  /\ scrollEnabled = [w \in Widgets |-> TRUE]
  /\ InitWidgets({1})

BurstDuration == (burst.n - 1) * burst.d

BurstNotify ==
  /\ nDelivered[1] < burst.n
  /\ now = nDelivered[1] * burst.d
  /\ DeliverScroll({1})
  /\ UNCHANGED <<now, mounted, propVars, orphans, responderVars,
                 teardownPhase, offsetVars, burst>>

BurstTick ==
  /\ nDelivered[1] < burst.n => now < nDelivered[1] * burst.d
  /\ Tick(BurstDuration + 2 * scrollEventThrottle[1])

NextBurst ==
  \/ BurstNotify
  \/ TimerFire(1)
  \/ BurstTick

SpecBurst == InitBurst /\ [][NextBurst]_vars

\* two widgets that differ only in scrollEventThrottle (negative, 0) and
\* receive the same scroll notifications
Twins == {1, 2}

InitTwin ==
  /\ \E neg \in (-MaxInterval)..(-1) :
       scrollEventThrottle = [w \in Widgets |-> IF w = 1 THEN neg ELSE 0]
  /\ hasOnScroll = [w \in Widgets |-> w \in Twins]
  /\ scrollEnabled = [w \in Widgets |-> TRUE]
  /\ burst = NoBurst
  /\ InitWidgets(Twins)

TwinScroll ==
  /\ \A w \in Twins : mounted[w] /\ nDelivered[w] < MaxEvents
  /\ DeliverScroll(Twins)
  /\ UNCHANGED <<now, mounted, propVars, orphans, responderVars,
                 teardownPhase, offsetVars, burst>>

NextTwin ==
  \/ TwinScroll
  \/ \E w \in Twins : Render(w)
  \/ Tick(MaxTime)

SpecTwin == InitTwin /\ [][NextTwin]_vars

\* ================================================================ claims
Payloads(w) == [i \in 1..Len(forwarded[w]) |-> forwarded[w][i].e]
Times(w) == [i \in 1..Len(forwarded[w]) |-> forwarded[w][i].at]
Count(seq, name) == Cardinality({i \in 1..Len(seq) : seq[i] = name})

\* C1: with scrollEventThrottle = 0 and onScroll supplied, onScroll is invoked
\* exactly once per scroll notification, in arrival order, payload unmodified.
C1_UnthrottledForwardsEveryEvent ==
  \A w \in Widgets :
    (mounted[w] /\ scrollEventThrottle[w] = 0 /\ hasOnScroll[w])
      => Payloads(w) = [i \in 1..nDelivered[w] |-> i]

\* C2: with an interval > 0, any two consecutive onScroll invocations of a
\* mounted widget are at least the interval apart, re-renders included.
C2_ForwardsAtLeastIntervalApart ==
  \A w \in Widgets :
    (mounted[w] /\ scrollEventThrottle[w] > 0)
      => \A i \in 1..(Len(forwarded[w]) - 1) :
           Times(w)[i + 1] - Times(w)[i] >= scrollEventThrottle[w]

\* C3: with an interval > 0 and the widget mounted, an event held back is
\* forwarded no later than one interval after it occurred, and every onScroll
\* invocation carries the latest event observed at the time of forwarding.
C3_ForwardCarriesLatestEvent ==
  [][\A w \in Widgets :
       (mounted'[w] /\ scrollEventThrottle[w] > 0
          /\ forwarded'[w] # forwarded[w])
         => /\ Last(forwarded'[w]).e = nDelivered'[w]
            /\ Len(forwarded'[w]) = Len(forwarded[w]) + 1]_vars

\* C5: after the unmount step no application callback of the widget is
\* invoked again, whatever timer firings follow.
C5_NoCallbackAfterUnmount ==
  [][\A w \in Widgets :
       ~mounted[w] => /\ forwarded'[w] = forwarded[w]
                      /\ callbacks'[w] = callbacks[w]]_vars

\* C10: a widget with a negative scrollEventThrottle behaves, on every
\* sequence of scroll notifications, exactly like the widget with interval 0
\* (every event forwarded).
C10_NegativeBehavesLikeZero ==
  /\ forwarded[1] = forwarded[2]
  /\ \A w \in Twins : Payloads(w) = [i \in 1..nDelivered[w] |-> i]

\* C4: at most one widget is in phase Active, and a widget in phase Active is
\* the owner recorded in the shared responder slot.
C4_AtMostOneActive ==
  /\ Cardinality({w \in Widgets : phase[w] = "Active"}) <= 1
  /\ \A w \in Widgets : phase[w] = "Active" => responder = w

C4_Witness ==
  \E w, c \in Widgets :
    /\ phase[w] = "Active"
    /\ phase[c] = "Claiming"
    /\ Count(callbacks[c], "onResponderReject") > 0

Given(arg) == IF arg = None THEN 0 ELSE arg[1]

C8_FirstArgumentIsHorizontal ==
  (lastCall # <<>> /\ lastCall[1] = "scrollTo")
    => /\ scrollLeft[lastCall[2]] = Given(lastCall[3])
       /\ scrollTop[lastCall[2]] = Given(lastCall[4])

\* C8 amended: scrollTo(first, second) and scrollWithoutAnimationTo(first,
\* second) both set the vertical offset to first and the horizontal offset
\* to second, a missing argument counting as 0, in one step that changes
\* nothing else.
C8_FirstArgumentIsVertical ==
  /\ [](lastCall # <<>>
          => /\ scrollTop[lastCall[2]] = Given(lastCall[3])
             /\ scrollLeft[lastCall[2]] = Given(lastCall[4]))
  /\ [][lastCall' # lastCall
          => /\ UNCHANGED <<now, mounted, propVars, throttleVars,
                            responderVars, teardownPhase, burst>>
             /\ \A w \in Widgets \ {lastCall'[2]} :
                  /\ scrollTop'[w] = scrollTop[w]
                  /\ scrollLeft'[w] = scrollLeft[w]]_vars

C8_Witness ==
  /\ lastCall # <<>>
  /\ lastCall[1] = "scrollTo"
  /\ lastCall[3] = <<1>>
  /\ lastCall[4] = None
  /\ scrollTop[1] = 1
  /\ scrollLeft[1] = 0
  /\ phase[1] = "Active"
  /\ handler[1].scheduled

\* C9 as stated: a finished burst has been forwarded floor(T / interval) + 1
\* times, the last call carrying the final event; the example burst gives
\* event@0 at 0, event@100 at 100 and event@150 at 200.
BurstDone ==
  /\ nDelivered[1] = burst.n
  /\ ~handler[1].scheduled

IsExample ==
  /\ scrollEventThrottle[1] = ExampleBurst.interval
  /\ burst.d = ExampleBurst.d
  /\ burst.n = ExampleBurst.n

====
